---------------------------- MODULE Spec2Model ----------------------------
(***************************************************************************)
(* A state-machine model of SceneManager (Source/SceneManager.cpp): the    *)
(* texture registry (m_textureIDs, m_loadedTextures), the material         *)
(* registry (m_objectMaterials), the uniform dispatcher (SetShader...),    *)
(* the model matrix (SetTransformations), the scene methods (PrepareScene, *)
(* RenderScene and its passes, the destructor) and the parts of the OpenGL *)
(* context and of the shader program that these operations read or write.  *)
(*                                                                         *)
(* Numbers: floats of the source are written as integers in thousandths    *)
(* (0.2f is 200, 25.0 is 25000); the only arithmetic done on them is that  *)
(* of the model matrix, in fixed point (see SetTransformations).           *)
(* Texel data and sampling parameters of a texture object are not part of  *)
(* the state: no operation of SceneManager reads them back.                *)
(***************************************************************************)
EXTENDS Integers, Sequences, FiniteSets, TLC

(***************************************************************************)
(* Program constants and model bounds                                      *)
(***************************************************************************)

\* size of the m_textureIDs table (constructor loop, "i < 16")
TexCapacity == 16

\* most glGenTextures calls in a behaviour of SpecTex or SpecShader
MaxTextures == 3

\* most entries of m_objectMaterials in a behaviour of SpecMat
MaxMaterials == 4

\* largest channel count the image decoder is taken to report
MaxChannels == 5

NULL == "NULL"

\* the ShaderManager object handed to the constructor
SHADER == "pShaderManager"

\* tags handed to CreateGLTexture and to the lookups; "/0" is the tag the
\* constructor writes into every unused slot
Tags == {"wood", "wall", "/0"}

\* uniform names of the shader program
g_ColorValueName == "objectColor"

g_TextureValueName == "objectTexture"

g_UseTextureName == "bUseTexture"

VARIABLES
  m_pShaderManager,   \* NULL or SHADER
  m_loadedTextures,   \* number of registered textures
  m_textureIDs,       \* index -> [tag, ID]
  m_objectMaterials,  \* sequence of OBJECT_MATERIAL
  stbiFlip,           \* stb_image's flip-vertically-on-load flag
  glNames,            \* texture names glGenTextures has returned
  glActive,           \* active texture unit (0 is GL_TEXTURE0)
  glBound,            \* unit -> texture bound to GL_TEXTURE_2D (absent: 0)
  uniforms,           \* uniform name -> value, for the uniforms written so far
  crashed,            \* the process has died (null dereference, wild write)
  last,               \* the last operation: its arguments and results
  pc,                 \* the scene method being executed and the position in it
  frames,             \* executions of RenderScene that have returned
  directive,          \* calls of the running pass since its last draw
  frameTrace,         \* calls of the running (or last) RenderScene execution
  prevTrace,          \* calls of the RenderScene execution before that one
  hist                \* counts of loads, binds and draws since construction

vars ==
  << m_pShaderManager, m_loadedTextures, m_textureIDs, m_objectMaterials,
     stbiFlip, glNames, glActive, glBound, uniforms, crashed, last,
     pc, frames, directive, frameTrace, prevTrace, hist >>

\* the bookkeeping of the scene methods (PrepareScene, RenderScene, the
\* destructor); the operations of the registries never write it themselves
sceneVars == << pc, frames, directive, frameTrace, prevTrace, hist >>

texVars == << m_loadedTextures, m_textureIDs >>

glVars == << glNames, glActive, glBound >>

(***************************************************************************)
(* Records of calls                                                        *)
(***************************************************************************)

\* op: the method; arg: its arguments; ret: its return value; out: the
\* output parameter on return; calls: the GL or uniform calls it made
Call(op, arg, ret, out, calls) ==
  [op |-> op, arg |-> arg, ret |-> ret, out |-> out, calls |-> calls]

NoCall == Call("constructor", <<>>, <<>>, <<>>, <<>>)

\* no scene method is running
Idle == [fn |-> "idle", at |-> 0]

\* PrepareScene has not been called; nothing has been loaded, bound or
\* drawn, and no load has failed
NoHistory ==
  [prepares |-> 0, creates |-> 0, binds |-> 0, draws |-> 0,
   createsAfterBind |-> 0, drawsBeforeBind |-> 0, failed |-> {}]

(***************************************************************************)
(* OpenGL texture units                                                    *)
(***************************************************************************)

\* the texture bound to GL_TEXTURE_2D on unit u in binding table b
BoundAt(b, u) == IF u \in DOMAIN b THEN b[u] ELSE 0

\* glBindTexture(GL_TEXTURE_2D, name) with unit u active
glBindTexture(b, u, name) ==
  IF name = 0
    THEN [v \in DOMAIN b \ {u} |-> b[v]]
    ELSE [v \in DOMAIN b \cup {u} |-> IF v = u THEN name ELSE b[v]]

\* glGenTextures(1, &id): an unused name; names are never deleted, so the
\* lowest unused name is one more than the number generated
glGenTextures(names) == Cardinality(names) + 1

(***************************************************************************)
(* The image decoder (stb_image)                                           *)
(***************************************************************************)

\* what stbi_load can hand back: no pixels (colorChannels stays 0), or
\* pixels with a channel count
Images ==
  {[ok |-> FALSE, channels |-> 0]} \cup
  {[ok |-> TRUE, channels |-> c] : c \in 1 .. MaxChannels}

(***************************************************************************)
(* Texture registry: lookups                                               *)
(***************************************************************************)

RECURSIVE FindTextureIDLoop(_, _, _, _)
\* the while loop of FindTextureID from the state (index, bFound, textureID)
FindTextureIDLoop(tag, index, bFound, textureID) ==
  IF (index < m_loadedTextures) /\ (bFound = FALSE)
    THEN IF m_textureIDs[index].tag = tag
           THEN FindTextureIDLoop(tag, index, TRUE, m_textureIDs[index].ID)
           ELSE FindTextureIDLoop(tag, index + 1, bFound, textureID)
    ELSE textureID

\* FindTextureID with the scan started at the second entry
FindTextureIDSkipsFirst(tag) == FindTextureIDLoop(tag, 1, FALSE, -1)

FindTextureID(tag) == FindTextureIDLoop(tag, 0, FALSE, -1)

RECURSIVE FindTextureSlotLoopNoStop(_, _, _, _)
\* FindTextureSlot's loop without the "bFound == false" test: it runs on
\* past a match and ends with the last one
FindTextureSlotLoopNoStop(tag, index, bFound, textureSlot) ==
  IF index < m_loadedTextures
    THEN IF m_textureIDs[index].tag = tag
           THEN FindTextureSlotLoopNoStop(tag, index + 1, TRUE, index)
           ELSE FindTextureSlotLoopNoStop(tag, index + 1, bFound, textureSlot)
    ELSE textureSlot

RECURSIVE FindTextureSlotLoop(_, _, _, _)
\* the while loop of FindTextureSlot from the state (index, bFound, textureSlot)
FindTextureSlotLoop(tag, index, bFound, textureSlot) ==
  IF (index < m_loadedTextures) /\ (bFound = FALSE)
    THEN IF m_textureIDs[index].tag = tag
           THEN FindTextureSlotLoop(tag, index, TRUE, index)
           ELSE FindTextureSlotLoop(tag, index + 1, bFound, textureSlot)
    ELSE textureSlot

FindTextureSlot(tag) == FindTextureSlotLoop(tag, 0, FALSE, -1)

(***************************************************************************)
(* Initial state: after SceneManager(pShaderManager)                       *)
(***************************************************************************)

Init ==
  /\ m_pShaderManager \in {NULL, SHADER}
  /\ m_loadedTextures = 0
  /\ m_textureIDs = [i \in 0 .. TexCapacity - 1 |-> [tag |-> "/0", ID |-> -1]]
  /\ m_objectMaterials = <<>>
  /\ stbiFlip = FALSE
  /\ glNames = {}
  /\ glActive = 0
  /\ glBound = <<>>
  /\ uniforms = <<>>
  /\ crashed = FALSE
  /\ last = NoCall
  /\ pc = Idle
  /\ frames = 0
  /\ directive = <<>>
  /\ frameTrace = <<>>
  /\ prevTrace = <<>>
  /\ hist = NoHistory

(***************************************************************************)
(* Texture registry: operations                                            *)
(***************************************************************************)

\* the GL calls of CreateGLTexture up to and including glTexImage2D
UploadCalls(textureID, unit, format) ==
  << <<"glGenTextures", textureID>>, <<"glBindTexture", unit, textureID>>,
     <<"glTexImage2D", format>> >>

\* RegisterTexture without "m_loadedTextures++"
RegisterTextureNoIncrement(textureID, tag) ==
  /\ m_textureIDs' =
       [m_textureIDs EXCEPT ![m_loadedTextures] = [tag |-> tag, ID |-> textureID]]
  /\ m_loadedTextures' = m_loadedTextures
  /\ crashed' = FALSE

\* lines 122-124: the write into slot m_loadedTextures and the increment.
\* The table has TexCapacity slots and the index is not checked: a write at
\* an index past the table is undefined, and either kills the process or
\* lands in the memory behind the table (kept here at that index).
RegisterTexture(textureID, tag) ==
  LET entry == [tag |-> tag, ID |-> textureID]
      n == m_loadedTextures
  IN  IF n < TexCapacity
        THEN /\ m_textureIDs' = [m_textureIDs EXCEPT ![n] = entry]
             /\ m_loadedTextures' = n + 1
             /\ crashed' = FALSE
        ELSE \E outcome \in {"crash", "wild write"} :
               IF outcome = "crash"
                 THEN /\ crashed' = TRUE
                      /\ UNCHANGED texVars
                 ELSE /\ m_textureIDs' =
                           [i \in DOMAIN m_textureIDs \cup {n} |->
                              IF i = n THEN entry ELSE m_textureIDs[i]]
                      /\ m_loadedTextures' = n + 1
                      /\ crashed' = FALSE

\* "if (image)" dropped: the upload path runs on a null image too
DecodedAlways(img) == TRUE

\* line 88, "if (image)": stbi_load handed back pixels
Decoded(img) == img.ok

\* the channel test loosened to "colorChannels >= 3"
ChannelsAtLeastThree(channels) == channels >= 3

\* lines 103-112: the formats glTexImage2D is called for; any other channel
\* count takes the "return false" branch
ChannelsSupported(channels) == channels = 3 \/ channels = 4

CreateGLTexture(img, tag) ==
  /\ ~crashed
  /\ stbiFlip' = TRUE
  /\ IF Decoded(img)
       THEN LET textureID == glGenTextures(glNames)
                bound == glBindTexture(glBound, glActive, textureID)
            IN  /\ glNames' = glNames \cup {textureID}
                /\ IF ChannelsSupported(img.channels)
                     THEN /\ glBound' = glBindTexture(bound, glActive, 0)
                          /\ RegisterTexture(textureID, tag)
                          /\ last' =
                               Call("CreateGLTexture", <<img, tag>>,
                                    IF crashed' THEN "no return" ELSE TRUE, <<>>,
                                    UploadCalls(textureID, glActive,
                                      IF img.channels = 3 THEN "GL_RGB8"
                                                          ELSE "GL_RGBA8")
                                    \o << <<"glGenerateMipmap">>,
                                          <<"stbi_image_free">>,
                                          <<"glBindTexture", glActive, 0>> >>)
                     ELSE /\ glBound' = bound
                          /\ UNCHANGED << texVars, crashed >>
                          /\ last' =
                               Call("CreateGLTexture", <<img, tag>>, FALSE, <<>>,
                                    << <<"glGenTextures", textureID>>,
                                       <<"glBindTexture", glActive, textureID>> >>)
       ELSE /\ UNCHANGED << texVars, crashed, glNames, glBound >>
            /\ last' = Call("CreateGLTexture", <<img, tag>>, FALSE, <<>>, <<>>)
  /\ UNCHANGED << m_pShaderManager, m_objectMaterials, glActive, uniforms >>

RECURSIVE BindLoopOneUnit(_, _, _, _)
\* BindGLTextures' loop without glActiveTexture: every entry is bound on the
\* unit that happens to be active
BindLoopOneUnit(i, active, bound, calls) ==
  IF i < m_loadedTextures
    THEN BindLoopOneUnit(i + 1, active,
                         glBindTexture(bound, active, m_textureIDs[i].ID),
                         calls \o << <<"glBindTexture", active,
                                       m_textureIDs[i].ID>> >>)
    ELSE [active |-> active, bound |-> bound, calls |-> calls]

RECURSIVE BindLoop(_, _, _, _)
\* the for loop of BindGLTextures from index i: the active unit, the
\* bindings and the calls made when it ends
BindLoop(i, active, bound, calls) ==
  IF i < m_loadedTextures
    THEN BindLoop(i + 1, i, glBindTexture(bound, i, m_textureIDs[i].ID),
                  calls \o << <<"glActiveTexture", i>>,
                              <<"glBindTexture", i, m_textureIDs[i].ID>> >>)
    ELSE [active |-> active, bound |-> bound, calls |-> calls]

BindGLTextures ==
  LET done == BindLoop(0, glActive, glBound, <<>>)
  IN  /\ ~crashed
      /\ glActive' = done.active
      /\ glBound' = done.bound
      /\ last' = Call("BindGLTextures", <<>>, <<>>, <<>>, done.calls)
      /\ UNCHANGED << m_pShaderManager, texVars, m_objectMaterials, stbiFlip,
                      glNames, uniforms, crashed >>

CallFindTextureID(tag) ==
  /\ ~crashed
  /\ last' = Call("FindTextureID", tag, FindTextureID(tag), <<>>, <<>>)
  /\ UNCHANGED << m_pShaderManager, texVars, m_objectMaterials, stbiFlip,
                  glVars, uniforms, crashed >>

CallFindTextureSlot(tag) ==
  /\ ~crashed
  /\ last' = Call("FindTextureSlot", tag, FindTextureSlot(tag), <<>>, <<>>)
  /\ UNCHANGED << m_pShaderManager, texVars, m_objectMaterials, stbiFlip,
                  glVars, uniforms, crashed >>

(***************************************************************************)
(* SpecTex: the texture registry driven by any sequence of its operations  *)
(***************************************************************************)

NextTex ==
  /\ \/ \E img \in Images, tag \in Tags :
          /\ Cardinality(glNames) < MaxTextures
          /\ CreateGLTexture(img, tag)
     \/ BindGLTextures
     \/ \E tag \in Tags : CallFindTextureID(tag)
     \/ \E tag \in Tags : CallFindTextureSlot(tag)
  /\ UNCHANGED sceneVars

SpecTex == Init /\ [][NextTex]_vars


(***************************************************************************)
(* Material registry                                                       *)
(***************************************************************************)

\* the five properties FindMaterial copies and SetShaderMaterial uploads
PropertyNames ==
  {"ambientColor", "ambientStrength", "diffuseColor", "specularColor",
   "shininess"}

\* an OBJECT_MATERIAL from its tag and its five properties, in field order
Material(tag, ambient, strength, diffuse, specular, shininess) ==
  [tag |-> tag, ambientColor |-> ambient, ambientStrength |-> strength,
   diffuseColor |-> diffuse, specularColor |-> specular,
   shininess |-> shininess]

\* the four materials DefineObjectMaterials pushes, in thousandths
goldMaterial ==
  Material("metal", <<200, 200, 200>>, 300, <<200, 200, 200>>,
           <<500, 500, 500>>, 25000)

woodMaterial ==
  Material("wood", <<100, 100, 100>>, 200, <<300, 300, 300>>,
           <<100, 100, 100>>, 300)

wallMaterial ==
  Material("walls", <<100, 100, 100>>, 200, <<500, 500, 500>>,
           <<100, 100, 100>>, 0)

grapeMaterial ==
  Material("plastic", <<100, 100, 100>>, 100, <<300, 200, 300>>,
           <<400, 200, 200>>, 500)

\* tags looked up; "glass" is the tag of glassMaterial, which is filled in
\* but never pushed
MaterialTags == {"metal", "wood", "walls", "plastic", "glass"}

\* materials handed to push_back one at a time: the gold material, the
\* wood material, and the wood properties under the gold material's tag
PushedMaterials ==
  {goldMaterial, woodMaterial, [woodMaterial EXCEPT !.tag = "metal"]}

\* what a default-initialised OBJECT_MATERIAL can hold: an empty tag and
\* indeterminate floats (two bit patterns stand for all of them)
IndeterminateMaterials ==
  { Material("", <<0, 0, 0>>, 0, <<0, 0, 0>>, <<0, 0, 0>>, 0),
    Material("", <<-7, 13, 999>>, -1, <<4, 4, 4>>, <<1, 2, 3>>, 77) }

\* output materials a caller of FindMaterial passes in
CallerMaterials ==
  { Material("", <<-7, 13, 999>>, -1, <<4, 4, 4>>, <<1, 2, 3>>, 77),
    [woodMaterial EXCEPT !.tag = ""] }

RECURSIVE FindMaterialLoopLast(_, _, _, _)
\* FindMaterial's loop without the "bFound == false" test: a later entry
\* with the tag overwrites what an earlier one wrote
FindMaterialLoopLast(tag, material, index, bFound) ==
  IF index < Len(m_objectMaterials)
    THEN IF m_objectMaterials[index + 1].tag = tag
           THEN FindMaterialLoopLast(tag,
                  [material EXCEPT
                     !.ambientColor = m_objectMaterials[index + 1].ambientColor,
                     !.ambientStrength = m_objectMaterials[index + 1].ambientStrength,
                     !.diffuseColor = m_objectMaterials[index + 1].diffuseColor,
                     !.specularColor = m_objectMaterials[index + 1].specularColor,
                     !.shininess = m_objectMaterials[index + 1].shininess],
                  index + 1, TRUE)
           ELSE FindMaterialLoopLast(tag, material, index + 1, bFound)
    ELSE material

RECURSIVE FindMaterialLoopCopiesScanned(_, _, _, _)
\* FindMaterial's loop with the five fields copied from every entry it
\* looks at, before the tags are compared
FindMaterialLoopCopiesScanned(tag, material, index, bFound) ==
  IF (index < Len(m_objectMaterials)) /\ (bFound = FALSE)
    THEN LET scanned ==
               [material EXCEPT
                  !.ambientColor = m_objectMaterials[index + 1].ambientColor,
                  !.ambientStrength = m_objectMaterials[index + 1].ambientStrength,
                  !.diffuseColor = m_objectMaterials[index + 1].diffuseColor,
                  !.specularColor = m_objectMaterials[index + 1].specularColor,
                  !.shininess = m_objectMaterials[index + 1].shininess]
         IN  IF m_objectMaterials[index + 1].tag = tag
               THEN FindMaterialLoopCopiesScanned(tag, scanned, index, TRUE)
               ELSE FindMaterialLoopCopiesScanned(tag, scanned, index + 1, bFound)
    ELSE material

RECURSIVE FindMaterialLoop(_, _, _, _)
\* the while loop of FindMaterial from the state (index, bFound): the
\* output material when it ends.  The vector is indexed from 0 in the source
\* and from 1 here.
FindMaterialLoop(tag, material, index, bFound) ==
  IF (index < Len(m_objectMaterials)) /\ (bFound = FALSE)
    THEN IF m_objectMaterials[index + 1].tag = tag
           THEN FindMaterialLoop(tag,
                  [material EXCEPT
                     !.ambientColor = m_objectMaterials[index + 1].ambientColor,
                     !.ambientStrength = m_objectMaterials[index + 1].ambientStrength,
                     !.diffuseColor = m_objectMaterials[index + 1].diffuseColor,
                     !.specularColor = m_objectMaterials[index + 1].specularColor,
                     !.shininess = m_objectMaterials[index + 1].shininess],
                  index, TRUE)
           ELSE FindMaterialLoop(tag, material, index + 1, bFound)
    ELSE material

\* FindMaterial without the early return on an empty vector
FindMaterialNoEmptyTest(tag, material) ==
  [ret |-> TRUE, material |-> FindMaterialLoop(tag, material, 0, FALSE)]

\* the return value and the output parameter of FindMaterial(tag, material):
\* false and an untouched output on an empty vector; otherwise the loop,
\* then "return(true)" whether or not bFound was set
FindMaterial(tag, material) ==
  IF Len(m_objectMaterials) = 0
    THEN [ret |-> FALSE, material |-> material]
    ELSE [ret |-> TRUE, material |-> FindMaterialLoop(tag, material, 0, FALSE)]

\* m_objectMaterials.push_back(material)
PushMaterial(material) ==
  /\ ~crashed
  /\ m_objectMaterials' = Append(m_objectMaterials, material)
  /\ last' = Call("push_back", material, <<>>, <<>>, <<>>)
  /\ UNCHANGED << m_pShaderManager, texVars, stbiFlip, glVars, uniforms,
                  crashed >>

DefineObjectMaterials ==
  /\ ~crashed
  /\ m_objectMaterials' =
       m_objectMaterials \o
         << goldMaterial, woodMaterial, wallMaterial, grapeMaterial >>
  /\ last' = Call("DefineObjectMaterials", <<>>, <<>>, <<>>, <<>>)
  /\ UNCHANGED << m_pShaderManager, texVars, stbiFlip, glVars, uniforms,
                  crashed >>

CallFindMaterial(tag, material) ==
  LET found == FindMaterial(tag, material)
  IN  /\ ~crashed
      /\ last' = Call("FindMaterial", <<tag, material>>, found.ret,
                      found.material, <<>>)
      /\ UNCHANGED << m_pShaderManager, texVars, m_objectMaterials, stbiFlip,
                      glVars, uniforms, crashed >>

(***************************************************************************)
(* The shader program's uniforms                                           *)
(***************************************************************************)

\* the uniforms u after set<T>Value(name, value)
SetUniform(u, name, value) ==
  [n \in DOMAIN u \cup {name} |-> IF n = name THEN value ELSE u[n]]

RECURSIVE ApplyUploads(_, _)
\* the uniforms after the uploads in calls, each << setter, name, value >>
ApplyUploads(u, calls) ==
  IF calls = <<>> THEN u
  ELSE ApplyUploads(SetUniform(u, Head(calls)[2], Head(calls)[3]), Tail(calls))

\* the value of uniform name in u as a one-element sequence, empty while
\* the uniform has not been written
UniformValue(u, name) == IF name \in DOMAIN u THEN <<u[name]>> ELSE <<>>

\* uniform name has been written and holds value
UniformIs(name, value) == UniformValue(uniforms, name) = <<value>>

\* the lines 367-371 with the upload of material.shininess left out
MaterialUploadsNoShininess(material) ==
  << <<"setVec3Value", "material.ambientColor", material.ambientColor>>,
     <<"setFloatValue", "material.ambientStrength", material.ambientStrength>>,
     <<"setVec3Value", "material.diffuseColor", material.diffuseColor>>,
     <<"setVec3Value", "material.specularColor", material.specularColor>> >>

\* lines 367-371: the five uploads of SetShaderMaterial, in order
MaterialUploads(material) ==
  << <<"setVec3Value", "material.ambientColor", material.ambientColor>>,
     <<"setFloatValue", "material.ambientStrength", material.ambientStrength>>,
     <<"setVec3Value", "material.diffuseColor", material.diffuseColor>>,
     <<"setVec3Value", "material.specularColor", material.specularColor>>,
     <<"setFloatValue", "material.shininess", material.shininess>> >>

\* SetShaderMaterial(materialTag).  The local material is not initialised
\* before FindMaterial fills it, and m_pShaderManager is used without the
\* NULL test the other setters make: a call through a null pointer ends the
\* process.
SetShaderMaterial(materialTag) ==
  /\ ~crashed
  /\ IF Len(m_objectMaterials) > 0
       THEN \E material \in IndeterminateMaterials :
              LET found == FindMaterial(materialTag, material)
                  uploads == MaterialUploads(found.material)
              IN  IF found.ret = TRUE
                    THEN IF m_pShaderManager = NULL
                           THEN /\ crashed' = TRUE
                                /\ UNCHANGED uniforms
                                /\ last' = Call("SetShaderMaterial", materialTag,
                                                "no return", <<>>, <<>>)
                           ELSE /\ uniforms' = ApplyUploads(uniforms, uploads)
                                /\ UNCHANGED crashed
                                /\ last' = Call("SetShaderMaterial", materialTag,
                                                <<>>, <<>>, uploads)
                    ELSE /\ UNCHANGED << uniforms, crashed >>
                         /\ last' = Call("SetShaderMaterial", materialTag,
                                         <<>>, <<>>, <<>>)
       ELSE /\ UNCHANGED << uniforms, crashed >>
            /\ last' = Call("SetShaderMaterial", materialTag, <<>>, <<>>, <<>>)
  /\ UNCHANGED << m_pShaderManager, texVars, m_objectMaterials, stbiFlip,
                  glVars >>

(***************************************************************************)
(* SpecMat: the material registry driven by pushes, lookups and uploads    *)
(***************************************************************************)

NextMat ==
  /\ \/ \E material \in PushedMaterials :
          /\ Len(m_objectMaterials) < MaxMaterials
          /\ PushMaterial(material)
     \/ /\ Len(m_objectMaterials) + 4 <= MaxMaterials
        /\ DefineObjectMaterials
     \/ \E tag \in MaterialTags, material \in CallerMaterials :
          CallFindMaterial(tag, material)
     \/ \E tag \in MaterialTags : SetShaderMaterial(tag)
  /\ UNCHANGED sceneVars

SpecMat == Init /\ [][NextMat]_vars

(***************************************************************************)
(* Uniform dispatcher: colour, texture, UV scale; mesh draws               *)
(***************************************************************************)

\* the int a bool argument becomes in setIntValue(name, int)
IntOfBool(b) == IF b THEN 1 ELSE 0

\* colours the scene passes to SetShaderColor, in thousandths
Colors == { <<71, 71, 71, 1000>>, <<949, 184, 863, 1000>>, <<700, 700, 800, 300>> }

\* mesh kinds of ShapeMeshes drawn in this model
MeshKinds == {"Plane", "Box"}

\* SetShaderColor without the write of bUseTexture
SetShaderColorKeepsTexture(redColorValue, greenColorValue, blueColorValue, alphaValue) ==
  LET currentColor ==
        <<redColorValue, greenColorValue, blueColorValue, alphaValue>>
      uploads == << <<"setVec4Value", g_ColorValueName, currentColor>> >>
  IN  /\ ~crashed
      /\ IF NULL # m_pShaderManager
           THEN /\ uniforms' = ApplyUploads(uniforms, uploads)
                /\ last' = Call("SetShaderColor", currentColor, <<>>, <<>>, uploads)
           ELSE /\ UNCHANGED uniforms
                /\ last' = Call("SetShaderColor", currentColor, <<>>, <<>>, <<>>)
      /\ UNCHANGED << m_pShaderManager, texVars, m_objectMaterials, stbiFlip,
                      glVars, crashed >>

\* SetShaderColor(r, g, b, a); currentColor is the vec4 (r, g, b, a)
SetShaderColor(redColorValue, greenColorValue, blueColorValue, alphaValue) ==
  LET currentColor ==
        <<redColorValue, greenColorValue, blueColorValue, alphaValue>>
      uploads ==
        << <<"setIntValue", g_UseTextureName, IntOfBool(FALSE)>>,
           <<"setVec4Value", g_ColorValueName, currentColor>> >>
  IN  /\ ~crashed
      /\ IF NULL # m_pShaderManager
           THEN /\ uniforms' = ApplyUploads(uniforms, uploads)
                /\ last' = Call("SetShaderColor", currentColor, <<>>, <<>>, uploads)
           ELSE /\ UNCHANGED uniforms
                /\ last' = Call("SetShaderColor", currentColor, <<>>, <<>>, <<>>)
      /\ UNCHANGED << m_pShaderManager, texVars, m_objectMaterials, stbiFlip,
                      glVars, crashed >>

\* SetShaderTexture with the texture's ID uploaded in place of its slot
SetShaderTextureUploadsID(textureTag) ==
  LET textureID == FindTextureID(textureTag)
      uploads ==
        << <<"setIntValue", g_UseTextureName, IntOfBool(TRUE)>>,
           <<"setSampler2DValue", g_TextureValueName, textureID>> >>
  IN  /\ ~crashed
      /\ IF NULL # m_pShaderManager
           THEN /\ uniforms' = ApplyUploads(uniforms, uploads)
                /\ last' = Call("SetShaderTexture", textureTag, <<>>, <<>>, uploads)
           ELSE /\ UNCHANGED uniforms
                /\ last' = Call("SetShaderTexture", textureTag, <<>>, <<>>, <<>>)
      /\ UNCHANGED << m_pShaderManager, texVars, m_objectMaterials, stbiFlip,
                      glVars, crashed >>

SetShaderTexture(textureTag) ==
  LET textureID == FindTextureSlot(textureTag)
      uploads ==
        << <<"setIntValue", g_UseTextureName, IntOfBool(TRUE)>>,
           <<"setSampler2DValue", g_TextureValueName, textureID>> >>
  IN  /\ ~crashed
      /\ IF NULL # m_pShaderManager
           THEN /\ uniforms' = ApplyUploads(uniforms, uploads)
                /\ last' = Call("SetShaderTexture", textureTag, <<>>, <<>>, uploads)
           ELSE /\ UNCHANGED uniforms
                /\ last' = Call("SetShaderTexture", textureTag, <<>>, <<>>, <<>>)
      /\ UNCHANGED << m_pShaderManager, texVars, m_objectMaterials, stbiFlip,
                      glVars, crashed >>

SetTextureUVScale(u, v) ==
  LET uploads == << <<"setVec2Value", "UVscale", <<u, v>>>> >>
  IN  /\ ~crashed
      /\ IF NULL # m_pShaderManager
           THEN /\ uniforms' = ApplyUploads(uniforms, uploads)
                /\ last' = Call("SetTextureUVScale", <<u, v>>, <<>>, <<>>, uploads)
           ELSE /\ UNCHANGED uniforms
                /\ last' = Call("SetTextureUVScale", <<u, v>>, <<>>, <<>>, <<>>)
      /\ UNCHANGED << m_pShaderManager, texVars, m_objectMaterials, stbiFlip,
                      glVars, crashed >>

\* m_basicMeshes->Draw<kind>Mesh(): the mesh is drawn with the uniforms as
\* they stand; no state of this model is written
DrawMesh(kind) ==
  /\ ~crashed
  /\ last' = Call("DrawMesh", kind, <<>>, <<>>, <<>>)
  /\ UNCHANGED << m_pShaderManager, texVars, m_objectMaterials, stbiFlip,
                  glVars, uniforms, crashed >>

(***************************************************************************)
(* SpecShader: loads, material definitions, colour / texture / UV /        *)
(* material uploads and draws, in any order                                *)
(***************************************************************************)

\* the tags and decoder outcomes SpecShader draws from: a missing file and
\* an RGB image
ShaderTags == {"wood", "wall"}

ShaderImages == {img \in Images : img.channels \in {0, 3}}

\* material tags SpecShader uploads: one that is pushed, one that is not
ShaderMaterialTags == {"wood", "glass"}

NextShader ==
  /\ \/ \E img \in ShaderImages, tag \in ShaderTags :
          /\ Cardinality(glNames) < MaxTextures
          /\ CreateGLTexture(img, tag)
     \/ \E c \in Colors : SetShaderColor(c[1], c[2], c[3], c[4])
     \/ \E tag \in ShaderTags : SetShaderTexture(tag)
     \/ SetTextureUVScale(1000, 1000)
     \/ /\ Len(m_objectMaterials) = 0
        /\ DefineObjectMaterials
     \/ \E tag \in ShaderMaterialTags : SetShaderMaterial(tag)
     \/ \E kind \in MeshKinds : DrawMesh(kind)
  /\ UNCHANGED sceneVars

SpecShader == Init /\ [][NextShader]_vars

(***************************************************************************)
(* The model matrix (SetTransformations)                                   *)
(*                                                                         *)
(* A mat4 is the tuple of its four rows, each a tuple of four numbers in   *)
(* thousandths; a matrix acts on a column vector (x, y, z, w).  A product  *)
(* of two numbers in thousandths is brought back to thousandths by a       *)
(* division by 1000: the arithmetic is exact for whole scale factors and   *)
(* for rotations by multiples of 90 degrees, and rounds elsewhere as the   *)
(* floats of the source do (to a different precision).                     *)
(***************************************************************************)

\* the product of two numbers in thousandths
Times(a, b) == (a * b) \div 1000

\* operator * of glm::mat4
MatMul(a, b) ==
  LET Entry(i, j) ==
        Times(a[i][1], b[1][j]) + Times(a[i][2], b[2][j])
          + Times(a[i][3], b[3][j]) + Times(a[i][4], b[4][j])
      Row(i) == <<Entry(i, 1), Entry(i, 2), Entry(i, 3), Entry(i, 4)>>
  IN  <<Row(1), Row(2), Row(3), Row(4)>>

\* glm::scale(v), with the amount of every axis taken from the x component
glmScaleUniform(v) ==
  << <<v[1], 0, 0, 0>>, <<0, v[1], 0, 0>>, <<0, 0, v[1], 0>>, <<0, 0, 0, 1000>> >>

\* glm::scale(v)
glmScale(v) ==
  << <<v[1], 0, 0, 0>>, <<0, v[2], 0, 0>>, <<0, 0, v[3], 0>>, <<0, 0, 0, 1000>> >>

\* glm::translate(v), with the offset written into the fourth row instead
\* of the fourth column
glmTranslateTransposed(v) ==
  << <<1000, 0, 0, 0>>, <<0, 1000, 0, 0>>, <<0, 0, 1000, 0>>,
     <<v[1], v[2], v[3], 1000>> >>

\* glm::translate(v)
glmTranslate(v) ==
  << <<1000, 0, 0, v[1]>>, <<0, 1000, 0, v[2]>>, <<0, 0, 1000, v[3]>>,
     <<0, 0, 0, 1000>> >>

\* cos(glm::radians(degrees)) for the multiples of 45 degrees; degrees is
\* in thousandths of a degree, the result in thousandths
Cosine(degrees) ==
  LET eighths == (degrees \div 45000) % 8
  IN  CASE eighths \in {0} -> 1000
        [] eighths \in {1, 7} -> 707
        [] eighths \in {2, 6} -> 0
        [] eighths \in {3, 5} -> -707
        [] eighths \in {4} -> -1000

\* sin(glm::radians(degrees)) for the multiples of 45 degrees
Sine(degrees) == Cosine(degrees - 90000)

XAxis == <<1000, 0, 0>>

YAxis == <<0, 1000, 0>>

ZAxis == <<0, 0, 1000>>

\* glm::rotate(glm::radians(degrees), axis) for the three axes the source
\* passes: the right-handed rotation about the axis
glmRotate(degrees, axis) ==
  LET c == Cosine(degrees)
      s == Sine(degrees)
  IN  CASE axis = XAxis ->
             << <<1000, 0, 0, 0>>, <<0, c, -s, 0>>, <<0, s, c, 0>>,
                <<0, 0, 0, 1000>> >>
        [] axis = YAxis ->
             << <<c, 0, s, 0>>, <<0, 1000, 0, 0>>, <<-s, 0, c, 0>>,
                <<0, 0, 0, 1000>> >>
        [] axis = ZAxis ->
             << <<c, -s, 0, 0>>, <<s, c, 0, 0>>, <<0, 0, 1000, 0>>,
                <<0, 0, 0, 1000>> >>

\* lines 274-282 with the product taken in the opposite order
ModelViewReversed(scaleXYZ, XrotationDegrees, YrotationDegrees, ZrotationDegrees, positionXYZ) ==
  LET scale == glmScale(scaleXYZ)
      rotationX == glmRotate(XrotationDegrees, XAxis)
      rotationY == glmRotate(YrotationDegrees, YAxis)
      rotationZ == glmRotate(ZrotationDegrees, ZAxis)
      translation == glmTranslate(positionXYZ)
  IN  MatMul(MatMul(MatMul(MatMul(scale, rotationZ), rotationY), rotationX),
             translation)

\* lines 274-282: modelView = translation * rotationX * rotationY *
\* rotationZ * scale (operator * associates to the left)
ModelView(scaleXYZ, XrotationDegrees, YrotationDegrees, ZrotationDegrees, positionXYZ) ==
  LET scale == glmScale(scaleXYZ)
      rotationX == glmRotate(XrotationDegrees, XAxis)
      rotationY == glmRotate(YrotationDegrees, YAxis)
      rotationZ == glmRotate(ZrotationDegrees, ZAxis)
      translation == glmTranslate(positionXYZ)
  IN  MatMul(MatMul(MatMul(MatMul(translation, rotationX), rotationY), rotationZ),
             scale)

g_ModelName == "model"

\* SetTransformations(scaleXYZ, Xrot, Yrot, Zrot, positionXYZ): the matrix
\* is computed in any case and uploaded when there is a shader manager
SetTransformations(scaleXYZ, XrotationDegrees, YrotationDegrees, ZrotationDegrees, positionXYZ) ==
  LET modelView ==
        ModelView(scaleXYZ, XrotationDegrees, YrotationDegrees,
                  ZrotationDegrees, positionXYZ)
      arg ==
        [scaleXYZ |-> scaleXYZ, XrotationDegrees |-> XrotationDegrees,
         YrotationDegrees |-> YrotationDegrees,
         ZrotationDegrees |-> ZrotationDegrees, positionXYZ |-> positionXYZ]
      uploads == << <<"setMat4Value", g_ModelName, modelView>> >>
  IN  /\ ~crashed
      /\ IF NULL # m_pShaderManager
           THEN /\ uniforms' = ApplyUploads(uniforms, uploads)
                /\ last' = Call("SetTransformations", arg, <<>>, <<>>, uploads)
           ELSE /\ UNCHANGED uniforms
                /\ last' = Call("SetTransformations", arg, <<>>, <<>>, <<>>)
      /\ UNCHANGED << m_pShaderManager, texVars, m_objectMaterials, stbiFlip,
                      glVars, crashed >>

(***************************************************************************)
(* SpecXform: SetTransformations called with any of a few scales,          *)
(* rotations and positions                                                 *)
(***************************************************************************)

\* scaleXYZ arguments: no scaling, one axis doubled, and three different
\* whole factors
ScaleInputs ==
  { <<1000, 1000, 1000>>, <<2000, 1000, 1000>>, <<2000, 3000, 4000>> }

\* rotation arguments: no turn, a quarter turn and a half turn
AngleInputs == {0, 90000, 180000}

\* positionXYZ arguments: the origin, a whole offset, and the position of
\* the back wall of RenderDeskandwalls
PositionInputs == { <<0, 0, 0>>, <<1000, -2000, 3000>>, <<0, 10000, -10000>> }

NextXform ==
  /\ \E scaleXYZ \in ScaleInputs, positionXYZ \in PositionInputs :
       \E XrotationDegrees \in AngleInputs, YrotationDegrees \in AngleInputs,
          ZrotationDegrees \in AngleInputs :
         SetTransformations(scaleXYZ, XrotationDegrees, YrotationDegrees,
                            ZrotationDegrees, positionXYZ)
  /\ UNCHANGED sceneVars

SpecXform == Init /\ [][NextXform]_vars

(***************************************************************************)
(* The scene: PrepareScene, RenderScene and its passes, the destructor     *)
(*                                                                         *)
(* A scene method is a fixed list of calls.  Each is written as the        *)
(* sequence of its calls, a call being the tuple of the method's name and  *)
(* its arguments; pc says which method is running and which call comes     *)
(* next, and Step makes that call.                                         *)
(***************************************************************************)

\* most executions of RenderScene in a behaviour of SpecScene
MaxFrames == 2

\* the calls of a method's script, each with the method that makes it
Within(method, script) ==
  [k \in 1 .. Len(script) |-> [pass |-> method, call |-> script[k]]]

\* lines 393-440: the sixteen CreateGLTexture calls of LoadSceneTextures
SceneTextureLoads ==
  << <<"CreateGLTexture", "textures/plastic_dark_seamless.jpg", "plastic">>,
     <<"CreateGLTexture", "textures/wood_knots_seamlessr.jpg", "wood">>,
     <<"CreateGLTexture", "textures/greywall.jpg", "wall">>,
     <<"CreateGLTexture", "textures/rubber_circles_seamless.jpg", "pad">>,
     <<"CreateGLTexture", "textures/screen_wallpaper_2.jpg", "pad2">>,
     <<"CreateGLTexture", "textures/PCscreen.jpg", "screen">>,
     <<"CreateGLTexture", "textures/blackmetal.jpg", "metal">>,
     <<"CreateGLTexture", "textures/motherboard.jpg", "mb">>,
     <<"CreateGLTexture", "textures/Riolu.jpg", "PKMN">>,
     <<"CreateGLTexture", "textures/rainbowFade.jpg", "rgb">>,
     <<"CreateGLTexture", "textures/motherboardback.jpeg", "mbb">>,
     <<"CreateGLTexture", "textures/blue.jpg", "blue">>,
     <<"CreateGLTexture", "textures/pink.jpg", "pink">>,
     <<"CreateGLTexture", "textures/Keyboardtop.jpg", "keyboard">>,
     <<"CreateGLTexture", "textures/RAMside.jpg", "ram">>,
     <<"CreateGLTexture", "textures/blackplasticmaterial.jpg", "blackpl">> >>

\* LoadSceneTextures() with BindGLTextures() called before the loads as
\* well as after them
LoadSceneTexturesBindFirst ==
  << <<"BindGLTextures">> >> \o SceneTextureLoads \o << <<"BindGLTextures">> >>

\* LoadSceneTextures(), lines 390-446: the loads, then BindGLTextures()
LoadSceneTextures == SceneTextureLoads \o << <<"BindGLTextures">> >>

g_UseLightingName == "bUseLighting"

\* lines 516-537: the uploads of SetupSceneLights, in order
LightUploads ==
  << <<"setBoolValue", g_UseLightingName, IntOfBool(TRUE)>>,
     <<"setVec3Value", "lightSources[0].position", <<13500, 15790, 1900>>>>,
     <<"setVec3Value", "lightSources[0].ambientColor", <<200, 200, 200>>>>,
     <<"setVec3Value", "lightSources[0].diffuseColor", <<949, 184, 863>>>>,
     <<"setVec3Value", "lightSources[0].specularColor", <<949, 184, 863>>>>,
     <<"setFloatValue", "lightSources[0].focalStrength", 1000>>,
     <<"setFloatValue", "lightSources[0].specularIntensity", 15000>>,
     <<"setVec3Value", "lightSources[1].position", <<-13500, 15790, 1900>>>>,
     <<"setVec3Value", "lightSources[1].ambientColor", <<200, 200, 200>>>>,
     <<"setVec3Value", "lightSources[1].diffuseColor", <<949, 184, 863>>>>,
     <<"setVec3Value", "lightSources[1].specularColor", <<949, 184, 863>>>>,
     <<"setFloatValue", "lightSources[1].focalStrength", 1000>>,
     <<"setFloatValue", "lightSources[1].specularIntensity", 15000>>,
     <<"setVec3Value", "lightSources[2].position", <<0, 3000, 20000>>>>,
     <<"setVec3Value", "lightSources[2].ambientColor", <<200, 200, 200>>>>,
     <<"setVec3Value", "lightSources[2].diffuseColor", <<800, 800, 800>>>>,
     <<"setVec3Value", "lightSources[2].specularColor", <<0, 0, 0>>>>,
     <<"setFloatValue", "lightSources[2].focalStrength", 12000>>,
     <<"setFloatValue", "lightSources[2].specularIntensity", 200>> >>

\* SetupSceneLights(): m_pShaderManager is used without a NULL test; a call
\* through a null pointer ends the process
SetupSceneLights ==
  /\ ~crashed
  /\ IF m_pShaderManager = NULL
       THEN /\ crashed' = TRUE
            /\ UNCHANGED uniforms
            /\ last' = Call("SetupSceneLights", <<>>, "no return", <<>>, <<>>)
       ELSE /\ uniforms' = ApplyUploads(uniforms, LightUploads)
            /\ UNCHANGED crashed
            /\ last' = Call("SetupSceneLights", <<>>, <<>>, <<>>, LightUploads)
  /\ UNCHANGED << m_pShaderManager, texVars, m_objectMaterials, stbiFlip,
                  glVars >>

\* m_basicMeshes->Load<kind>Mesh(): the geometry is built inside
\* ShapeMeshes; no state of this model is written
LoadMesh(kind) ==
  /\ ~crashed
  /\ last' = Call("LoadMesh", kind, <<>>, <<>>, <<>>)
  /\ UNCHANGED << m_pShaderManager, texVars, m_objectMaterials, stbiFlip,
                  glVars, uniforms, crashed >>

\* PrepareScene(), lines 547-566
PrepareScene ==
  Within("LoadSceneTextures", LoadSceneTextures) \o
  Within("PrepareScene",
         << <<"DefineObjectMaterials">>, <<"SetupSceneLights">>,
            <<"LoadMesh", "Plane">>, <<"LoadMesh", "Box">>,
            <<"LoadMesh", "TaperedCylinder">>, <<"LoadMesh", "Sphere">>,
            <<"LoadMesh", "Cylinder">>, <<"LoadMesh", "Torus">>,
            <<"LoadMesh", "Prism">> >>)

\* RenderDeskandwalls() with the second wall drawn under the transform of
\* the first
RenderDeskandwallsSharedTransform ==
  <<
     <<"SetTransformations", <<20000, 1000, 10000>>, 90000, 0, 0, <<0, 10000, -10000>>>>,
     <<"SetShaderTexture", "wall">>,
     <<"SetTextureUVScale", 1000, 1000>>,
     <<"SetShaderMaterial", "walls">>,
     <<"DrawMesh", "Plane">>,
     <<"SetShaderTexture", "wall">>,
     <<"SetTextureUVScale", 1000, 1000>>,
     <<"SetShaderMaterial", "walls">>,
     <<"DrawMesh", "Plane">>,
     <<"SetTransformations", <<20000, 1000, 10000>>, 0, 0, 0, <<0, 0, 0>>>>,
     <<"SetShaderTexture", "wood">>,
     <<"SetTextureUVScale", 1000, 1000>>,
     <<"SetShaderMaterial", "wood">>,
     <<"DrawMesh", "Plane">> >>

\* RenderDeskandwalls(), lines 591-688: the two walls and the desk top;
\* one line per call, in the order of the source
RenderDeskandwalls ==
  <<
     <<"SetTransformations", <<20000, 1000, 10000>>, 90000, 0, 0, <<0, 10000, -10000>>>>,
     <<"SetShaderTexture", "wall">>,
     <<"SetTextureUVScale", 1000, 1000>>,
     <<"SetShaderMaterial", "walls">>,
     <<"DrawMesh", "Plane">>,
     <<"SetTransformations", <<10000, 1000, 10000>>, 0, 0, 90000, <<20000, 10000, 0>>>>,
     <<"SetShaderTexture", "wall">>,
     <<"SetTextureUVScale", 1000, 1000>>,
     <<"SetShaderMaterial", "walls">>,
     <<"DrawMesh", "Plane">>,
     <<"SetTransformations", <<20000, 1000, 10000>>, 0, 0, 0, <<0, 0, 0>>>>,
     <<"SetShaderTexture", "wood">>,
     <<"SetTextureUVScale", 1000, 1000>>,
     <<"SetShaderMaterial", "wood">>,
     <<"DrawMesh", "Plane">> >>

\* RenderKeyboardandmat(), lines 697-815: the mouse mat and the keyboard;
\* one line per call, in the order of the source
RenderKeyboardandmat ==
  <<
     <<"SetTransformations", <<31000, 100, 10000>>, 0, 0, 0, <<-4000, 100, 4500>>>>,
     <<"SetShaderTexture", "pad">>,
     <<"SetTextureUVScale", 1000, 1000>>,
     <<"SetShaderTexture", "pad2">>,
     <<"SetTextureUVScale", 1000, 1000>>,
     <<"DrawMesh", "Box">>,
     <<"SetTransformations", <<14000, 500, 5000>>, 0, 0, 0, <<-8000, 300, 4500>>>>,
     <<"SetShaderTexture", "keyboard">>,
     <<"SetTextureUVScale", 1000, 1000>>,
     <<"SetShaderMaterial", "plastic">>,
     <<"DrawMesh", "Box">>,
     <<"SetTransformations", <<1000, 14000, 500>>, 90000, 180000, 90000, <<-8000, 300, 7000>>>>,
     <<"SetShaderTexture", "plastic">>,
     <<"SetTextureUVScale", 1000, 1000>>,
     <<"SetShaderMaterial", "plastic">>,
     <<"DrawMesh", "Prism">>,
     <<"SetTransformations", <<14010, 490, 5010>>, 0, 0, 0, <<-8000, 300, 4500>>>>,
     <<"SetShaderTexture", "plastic">>,
     <<"SetTextureUVScale", 1000, 1000>>,
     <<"SetShaderMaterial", "plastic">>,
     <<"DrawMesh", "Box">> >>

\* RenderMouse(), lines 823-1005: the mouse;
\* one line per call, in the order of the source
RenderMouse ==
  <<
     <<"SetTransformations", <<1000, 300, 2000>>, 0, 0, 0, <<2000, 200, 4500>>>>,
     <<"SetShaderTexture", "blackpl">>,
     <<"SetTextureUVScale", 1000, 1000>>,
     <<"SetShaderMaterial", "plastic">>,
     <<"DrawMesh", "Cylinder">>,
     <<"SetTransformations", <<1000, 500, 2000>>, 0, 0, 0, <<2000, 500, 4500>>>>,
     <<"SetShaderTexture", "blackpl">>,
     <<"SetTextureUVScale", 1000, 1000>>,
     <<"SetShaderMaterial", "plastic">>,
     <<"DrawMesh", "Sphere">>,
     <<"SetTransformations", <<350, 350, 350>>, 0, 90000, 0, <<2000, 670, 3700>>>>,
     <<"SetShaderColor", 71, 71, 71, 1000>>,
     <<"DrawMesh", "Torus">>,
     <<"SetTransformations", <<150, 150, 150>>, 180000, 0, 0, <<2000, 950, 4200>>>>,
     <<"SetShaderColor", 71, 71, 71, 1000>>,
     <<"DrawMesh", "Box">>,
     <<"SetTransformations", <<150, 300, 150>>, 90000, 0, 0, <<1150, 700, 4900>>>>,
     <<"SetShaderColor", 71, 71, 71, 1000>>,
     <<"DrawMesh", "Box">>,
     <<"SetTransformations", <<150, 300, 150>>, 90000, 0, 0, <<1140, 700, 4500>>>>,
     <<"SetShaderColor", 71, 71, 71, 1000>>,
     <<"DrawMesh", "Box">>,
     <<"SetTransformations", <<1000, 1800, 500>>, 90000, 0, 0, <<2000, 100, 4500>>>>,
     <<"SetShaderColor", 949, 184, 863, 1000>>,
     <<"DrawMesh", "Torus">> >>

\* RenderMonitor(), lines 1013-1156: the monitor;
\* one line per call, in the order of the source
RenderMonitor ==
  <<
     <<"SetTransformations", <<9000, 500, 5000>>, 0, 180000, 0, <<-4000, 300, -3500>>>>,
     <<"SetShaderTexture", "plastic">>,
     <<"SetTextureUVScale", 1000, 1000>>,
     <<"SetShaderMaterial", "plastic">>,
     <<"DrawMesh", "Prism">>,
     <<"SetTransformations", <<1150, 6300, 1150>>, 0, 45000, 0, <<-4000, 3300, -3500>>>>,
     <<"SetShaderTexture", "plastic">>,
     <<"SetTextureUVScale", 1000, 1000>>,
     <<"SetShaderMaterial", "plastic">>,
     <<"DrawMesh", "Box">>,
     <<"SetTransformations", <<1000, 1000, 850>>, 0, 0, 0, <<-4000, 5950, -2850>>>>,
     <<"SetShaderTexture", "plastic">>,
     <<"SetTextureUVScale", 1000, 1000>>,
     <<"SetShaderMaterial", "plastic">>,
     <<"DrawMesh", "Box">>,
     <<"SetTransformations", <<12000, 100, 6000>>, 90000, 0, 0, <<-4000, 5950, -2223>>>>,
     <<"SetShaderTexture", "screen">>,
     <<"SetTextureUVScale", 1000, 1000>>,
     <<"SetShaderMaterial", "metal">>,
     <<"DrawMesh", "Box">>,
     <<"SetTransformations", <<12250, 250, 6250>>, 90000, 0, 0, <<-4000, 5950, -2300>>>>,
     <<"SetShaderTexture", "plastic">>,
     <<"SetTextureUVScale", 1000, 1000>>,
     <<"SetShaderMaterial", "plastic">>,
     <<"DrawMesh", "Box">> >>

\* RenderPCexterior(), lines 1164-1444: the feet and the panels of the PC case;
\* one line per call, in the order of the source
RenderPCexterior ==
  <<
     <<"SetTransformations", <<150, 630, 500>>, 0, 0, 0, <<11000, 100, 8500>>>>,
     <<"SetShaderColor", 71, 71, 71, 1000>>,
     <<"SetShaderMaterial", "plastic">>,
     <<"DrawMesh", "Cylinder">>,
     <<"SetTransformations", <<150, 630, 500>>, 0, 0, 0, <<11000, 0, -4500>>>>,
     <<"SetShaderColor", 71, 71, 71, 1000>>,
     <<"SetShaderMaterial", "plastic">>,
     <<"DrawMesh", "Cylinder">>,
     <<"SetTransformations", <<150, 630, 500>>, 0, 0, 0, <<16000, 0, 8500>>>>,
     <<"SetShaderColor", 71, 71, 71, 1000>>,
     <<"SetShaderMaterial", "plastic">>,
     <<"DrawMesh", "Cylinder">>,
     <<"SetTransformations", <<150, 630, 500>>, 0, 0, 0, <<16000, 0, -4500>>>>,
     <<"SetShaderColor", 71, 71, 71, 1000>>,
     <<"SetShaderMaterial", "plastic">>,
     <<"DrawMesh", "Cylinder">>,
     <<"SetTransformations", <<6000, 300, 14800>>, 0, 0, 0, <<13500, 710, 1900>>>>,
     <<"SetShaderTexture", "metal">>,
     <<"SetTextureUVScale", 1000, 1000>>,
     <<"SetShaderMaterial", "metal">>,
     <<"DrawMesh", "Box">>,
     <<"SetTransformations", <<6000, 300, 14800>>, 0, 0, 0, <<13500, 10790, 1900>>>>,
     <<"SetShaderTexture", "metal">>,
     <<"SetTextureUVScale", 1000, 1000>>,
     <<"SetShaderMaterial", "metal">>,
     <<"DrawMesh", "Box">>,
     <<"SetTransformations", <<6000, 300, 9800>>, 90000, 0, 0, <<13500, 5750, -5349>>>>,
     <<"SetShaderTexture", "metal">>,
     <<"SetTextureUVScale", 1000, 1000>>,
     <<"SetShaderMaterial", "metal">>,
     <<"DrawMesh", "Box">>,
     <<"SetTransformations", <<14500, 300, 9800>>, 90000, 0, 90000, <<16350, 5750, 2050>>>>,
     <<"SetShaderTexture", "metal">>,
     <<"SetTextureUVScale", 1000, 1000>>,
     <<"SetShaderMaterial", "metal">>,
     <<"DrawMesh", "Box">>,
     <<"SetTransformations", <<7250, 250, 7250>>, 90000, 0, 90000, <<16300, 6300, -1550>>>>,
     <<"SetShaderTexture", "mb">>,
     <<"SetTextureUVScale", 1000, 1000>>,
     <<"SetShaderMaterial", "metal">>,
     <<"DrawMesh", "Box">>,
     <<"SetTransformations", <<5404, 300, 9800>>, 90000, 0, 0, <<13500, 5750, 8649>>>>,
     <<"SetShaderTexture", "metal">>,
     <<"SetTextureUVScale", 1000, 1000>>,
     <<"SetShaderMaterial", "metal">>,
     <<"DrawMesh", "Box">> >>

\* RenderPCinterior(), lines 1452-1825: the fans, memory, boards and cables inside the PC case;
\* one line per call, in the order of the source
RenderPCinterior ==
  <<
     <<"SetTransformations", <<1300, 1300, 1300>>, 0, 0, 90000, <<16300, 7400, -1700>>>>,
     <<"SetShaderTexture", "plastic">>,
     <<"SetTextureUVScale", 1000, 1000>>,
     <<"SetShaderMaterial", "plastic">>,
     <<"DrawMesh", "Cylinder">>,
     <<"SetTransformations", <<1000, 1000, 1000>>, 0, 0, 90000, <<15960, 7400, -1700>>>>,
     <<"SetShaderTexture", "PKMN">>,
     <<"SetTextureUVScale", 1000, 1000>>,
     <<"SetShaderMaterial", "plastic">>,
     <<"DrawMesh", "Cylinder">>,
     <<"SetTransformations", <<1000, 1000, 1000>>, 90000, 90000, 90000, <<15100, 7400, -1700>>>>,
     <<"SetShaderTexture", "plastic">>,
     <<"SetTextureUVScale", 1000, 1000>>,
     <<"SetShaderMaterial", "plastic">>,
     <<"DrawMesh", "Torus">>,
     <<"SetTransformations", <<4000, 1000, 200>>, 0, 0, 90000, <<15800, 7490, 30>>>>,
     <<"SetShaderTexture", "ram">>,
     <<"SetTextureUVScale", 1000, 1000>>,
     <<"SetShaderMaterial", "plastic">>,
     <<"DrawMesh", "Box">>,
     <<"SetTransformations", <<4000, 1000, 200>>, 0, 0, 90000, <<15800, 7490, 580>>>>,
     <<"SetShaderTexture", "ram">>,
     <<"SetTextureUVScale", 1000, 1000>>,
     <<"SetShaderMaterial", "plastic">>,
     <<"DrawMesh", "Box">>,
     <<"SetTransformations", <<200, 4000, 200>>, 0, 0, 0, <<15200, 7490, 580>>>>,
     <<"SetShaderTexture", "rgb">>,
     <<"SetTextureUVScale", 1000, 1000>>,
     <<"SetShaderMaterial", "plastic">>,
     <<"DrawMesh", "Box">>,
     <<"SetTransformations", <<200, 4000, 200>>, 0, 0, 0, <<15200, 7490, 30>>>>,
     <<"SetShaderTexture", "rgb">>,
     <<"SetTextureUVScale", 1000, 1000>>,
     <<"SetShaderMaterial", "plastic">>,
     <<"DrawMesh", "Box">>,
     <<"SetTransformations", <<1200, 4600, 900>>, 0, 90000, 0, <<15800, 7650, -4580>>>>,
     <<"SetShaderTexture", "mbb">>,
     <<"SetTextureUVScale", 1000, 1000>>,
     <<"SetShaderMaterial", "metal">>,
     <<"DrawMesh", "Box">>,
     <<"SetTransformations", <<1300, 4700, 1000>>, 0, 90000, 0, <<15860, 7650, -4580>>>>,
     <<"SetShaderTexture", "metal">>,
     <<"SetTextureUVScale", 1000, 1000>>,
     <<"SetShaderMaterial", "metal">>,
     <<"DrawMesh", "Box">>,
     <<"SetTransformations", <<1200, 1200, 2000>>, 0, 0, 90000, <<13500, 5750, 8649>>>>,
     <<"SetShaderTexture", "pink">>,
     <<"SetTextureUVScale", 1000, 1000>>,
     <<"SetShaderMaterial", "wood">>,
     <<"DrawMesh", "Torus">>,
     <<"SetTransformations", <<1200, 1200, 2000>>, 0, 0, 90000, <<13500, 9000, 8649>>>>,
     <<"SetShaderTexture", "blue">>,
     <<"SetTextureUVScale", 1000, 1000>>,
     <<"SetShaderMaterial", "wood">>,
     <<"DrawMesh", "Torus">>,
     <<"SetTransformations", <<1200, 1200, 2000>>, 0, 0, 90000, <<13500, 2500, 8649>>>>,
     <<"SetShaderTexture", "blue">>,
     <<"SetTextureUVScale", 1000, 1000>>,
     <<"SetShaderMaterial", "wood">>,
     <<"DrawMesh", "Torus">>,
     <<"SetTransformations", <<5000, 2000, 12000>>, 0, 0, 0, <<13800, 1700, 700>>>>,
     <<"SetShaderTexture", "metal">>,
     <<"SetTextureUVScale", 1000, 1000>>,
     <<"SetShaderMaterial", "metal">>,
     <<"DrawMesh", "Box">> >>

\* RenderGlass() with the materials defined again at its start
RenderGlassDefiningMaterials ==
  <<
     <<"DefineObjectMaterials">>,
     <<"SetTransformations", <<14500, 300, 9800>>, 90000, 0, 90000, <<10650, 5750, 2050>>>>,
     <<"SetShaderColor", 700, 700, 800, 300>>,
     <<"SetShaderMaterial", "glass">>,
     <<"DrawMesh", "Box">>,
     <<"SetTransformations", <<5404, 50, 9800>>, 90000, 0, 0, <<13500, 5750, 9289>>>>,
     <<"SetShaderColor", 700, 700, 800, 300>>,
     <<"SetShaderMaterial", "glass">>,
     <<"DrawMesh", "Box">> >>

\* RenderGlass(), lines 1833-1891: the two glass panels of the PC case;
\* one line per call, in the order of the source
RenderGlass ==
  <<
     <<"SetTransformations", <<14500, 300, 9800>>, 90000, 0, 90000, <<10650, 5750, 2050>>>>,
     <<"SetShaderColor", 700, 700, 800, 300>>,
     <<"SetShaderMaterial", "glass">>,
     <<"DrawMesh", "Box">>,
     <<"SetTransformations", <<5404, 50, 9800>>, 90000, 0, 0, <<13500, 5750, 9289>>>>,
     <<"SetShaderColor", 700, 700, 800, 300>>,
     <<"SetShaderMaterial", "glass">>,
     <<"DrawMesh", "Box">> >>

\* RenderScene() with RenderGlass() called before RenderMonitor()
RenderSceneGlassBeforeMonitor ==
  Within("RenderDeskandwalls", RenderDeskandwalls) \o
  Within("RenderKeyboardandmat", RenderKeyboardandmat) \o
  Within("RenderMouse", RenderMouse) \o
  Within("RenderPCexterior", RenderPCexterior) \o
  Within("RenderPCinterior", RenderPCinterior) \o
  Within("RenderGlass", RenderGlass) \o
  Within("RenderMonitor", RenderMonitor)

\* RenderScene(), lines 574-583: the seven passes in the order of the calls
RenderScene ==
  Within("RenderDeskandwalls", RenderDeskandwalls) \o
  Within("RenderKeyboardandmat", RenderKeyboardandmat) \o
  Within("RenderMouse", RenderMouse) \o
  Within("RenderPCexterior", RenderPCexterior) \o
  Within("RenderPCinterior", RenderPCinterior) \o
  Within("RenderMonitor", RenderMonitor) \o
  Within("RenderGlass", RenderGlass)

RECURSIVE DestroyLoop(_, _, _, _)
\* the for loop of DestroyGLTextures from index i: glGenTextures(1,
\* &m_textureIDs[i].ID) makes a new name and writes it over the entry's ID;
\* no name is deleted
DestroyLoop(i, names, ids, calls) ==
  IF i < m_loadedTextures
    THEN LET textureID == glGenTextures(names)
         IN  DestroyLoop(i + 1, names \cup {textureID},
                         [ids EXCEPT ![i].ID = textureID],
                         calls \o << <<"glGenTextures", textureID>> >>)
    ELSE [names |-> names, ids |-> ids, calls |-> calls]

\* DestroyGLTextures(), lines 157-163
DestroyGLTextures ==
  LET done == DestroyLoop(0, glNames, m_textureIDs, <<>>)
  IN  /\ glNames' = done.names
      /\ m_textureIDs' = done.ids
      /\ last' = Call("~SceneManager", <<>>, <<>>, <<>>, done.calls)
      /\ UNCHANGED << m_loadedTextures, m_objectMaterials, stbiFlip, glActive,
                      glBound, uniforms, crashed >>

\* what stbi_load hands back for the files of the scene: each is a
\* three-channel JPEG when it is there; these two may also be missing or
\* be stored with a single channel
UnreliableFiles ==
  {"textures/wood_knots_seamlessr.jpg", "textures/blackplasticmaterial.jpg"}

FileImages(filename) ==
  IF filename \in UnreliableFiles
    THEN {img \in Images : img.channels \in {0, 1, 3}}
    ELSE {img \in Images : img.channels = 3}

\* the call at the head of a script entry, made with its arguments
Exec(call) ==
  \/ /\ call[1] = "CreateGLTexture"
     /\ \E img \in FileImages(call[2]) : CreateGLTexture(img, call[3])
  \/ /\ call[1] = "BindGLTextures"
     /\ BindGLTextures
  \/ /\ call[1] = "DefineObjectMaterials"
     /\ DefineObjectMaterials
  \/ /\ call[1] = "SetupSceneLights"
     /\ SetupSceneLights
  \/ /\ call[1] = "LoadMesh"
     /\ LoadMesh(call[2])
  \/ /\ call[1] = "SetTransformations"
     /\ SetTransformations(call[2], call[3], call[4], call[5], call[6])
  \/ /\ call[1] = "SetShaderTexture"
     /\ SetShaderTexture(call[2])
  \/ /\ call[1] = "SetShaderColor"
     /\ SetShaderColor(call[2], call[3], call[4], call[5])
  \/ /\ call[1] = "SetTextureUVScale"
     /\ SetTextureUVScale(call[2], call[3])
  \/ /\ call[1] = "SetShaderMaterial"
     /\ SetShaderMaterial(call[2])
  \/ /\ call[1] = "DrawMesh"
     /\ DrawMesh(call[2])

\* the script of the scene method fn
Script(fn) == IF fn = "PrepareScene" THEN PrepareScene ELSE RenderScene

\* the caller (the application's main) calls PrepareScene once, before the
\* first frame
CallPrepareScene ==
  /\ ~crashed
  /\ pc = Idle
  /\ hist.prepares = 0
  /\ pc' = [fn |-> "PrepareScene", at |-> 1]
  /\ hist' = [hist EXCEPT !.prepares = @ + 1]
  /\ UNCHANGED << m_pShaderManager, texVars, m_objectMaterials, stbiFlip,
                  glVars, uniforms, crashed, last, frames, directive,
                  frameTrace, prevTrace >>

\* the caller's render loop calls RenderScene once per frame
CallRenderScene ==
  /\ ~crashed
  /\ pc = Idle
  /\ hist.prepares > 0
  /\ frames < MaxFrames
  /\ pc' = [fn |-> "RenderScene", at |-> 1]
  /\ prevTrace' = frameTrace
  /\ frameTrace' = <<>>
  /\ UNCHANGED << m_pShaderManager, texVars, m_objectMaterials, stbiFlip,
                  glVars, uniforms, crashed, last, frames, directive, hist >>

\* the history after the call op
Counted(h, op) ==
  CASE op = "CreateGLTexture" ->
         [h EXCEPT !.creates = @ + 1,
                   !.createsAfterBind = IF h.binds > 0 THEN @ + 1 ELSE @]
    [] op = "BindGLTextures" -> [h EXCEPT !.binds = @ + 1]
    [] op = "DrawMesh" ->
         [h EXCEPT !.draws = @ + 1,
                   !.drawsBeforeBind = IF h.binds = 0 THEN @ + 1 ELSE @]
    [] OTHER -> h

\* the history after call: the tag of a CreateGLTexture call that returned
\* false joins the failed loads (a call that ended the process, died, did
\* not return)
NotedFailure(h, call, died) ==
  IF call.op = "CreateGLTexture" /\ ~died /\ call.ret = FALSE
    THEN [h EXCEPT !.failed = @ \cup {call.arg[2]}]
    ELSE h

\* the next call of the running scene method; the method returns after
\* its last call, and nothing follows a call that ended the process
Step ==
  /\ pc.fn \in {"PrepareScene", "RenderScene"}
  /\ LET script == Script(pc.fn)
         entry == script[pc.at]
         returns == pc.at = Len(script)
         rendering == pc.fn = "RenderScene"
         fresh ==
           \/ pc.at = 1
           \/ script[pc.at - 1].pass # entry.pass
           \/ script[pc.at - 1].call[1] = "DrawMesh"
     IN  /\ Exec(entry.call)
         /\ pc' = IF crashed' THEN pc
                  ELSE IF returns THEN Idle
                  ELSE [pc EXCEPT !.at = @ + 1]
         /\ frames' = IF rendering /\ returns /\ ~crashed'
                        THEN frames + 1 ELSE frames
         /\ directive' = IF ~rendering THEN directive
                         ELSE Append(IF fresh THEN <<>> ELSE directive, last'.op)
         /\ frameTrace' =
              IF ~rendering THEN frameTrace
              ELSE Append(frameTrace,
                          [pass |-> entry.pass, op |-> last'.op,
                           arg |-> last'.arg, calls |-> last'.calls])
         /\ hist' = NotedFailure(Counted(hist, last'.op), last', crashed')
         /\ UNCHANGED prevTrace

\* ~SceneManager(), lines 53-59
Destructor ==
  /\ ~crashed
  /\ pc = Idle
  /\ m_pShaderManager' = NULL
  /\ DestroyGLTextures
  /\ pc' = [fn |-> "destroyed", at |-> 0]
  /\ UNCHANGED << frames, directive, frameTrace, prevTrace, hist >>

(***************************************************************************)
(* SpecScene: the life of a SceneManager: PrepareScene once, RenderScene   *)
(* up to MaxFrames times, the destructor at any time between two calls     *)
(***************************************************************************)

NextScene ==
  \/ CallPrepareScene
  \/ CallRenderScene
  \/ Step
  \/ Destructor

SpecScene == Init /\ [][NextScene]_vars

(***************************************************************************)
(* SpecReload: PrepareScene called again on a scene that is already        *)
(* prepared, up to MaxPrepares calls in all; nothing in SceneManager       *)
(* keeps a caller from doing so                                            *)
(***************************************************************************)

\* most calls of PrepareScene in a behaviour of SpecReload
MaxPrepares == 2

\* a further call of PrepareScene() by the caller
CallPrepareSceneAgain ==
  /\ ~crashed
  /\ pc = Idle
  /\ hist.prepares > 0
  /\ hist.prepares < MaxPrepares
  /\ pc' = [fn |-> "PrepareScene", at |-> 1]
  /\ hist' = [hist EXCEPT !.prepares = @ + 1]
  /\ UNCHANGED << m_pShaderManager, texVars, m_objectMaterials, stbiFlip,
                  glVars, uniforms, crashed, last, frames, directive,
                  frameTrace, prevTrace >>

NextReload ==
  \/ CallPrepareScene
  \/ CallPrepareSceneAgain
  \/ Step

SpecReload == Init /\ [][NextReload]_vars

(***************************************************************************)
(* Claims about the texture registry (checked under SpecTex)               *)
(***************************************************************************)

\* the slots of the registry whose tag is tag
TextureMatches(tag) ==
  {i \in 0 .. m_loadedTextures - 1 : m_textureIDs[i].tag = tag}

Smallest(S) == CHOOSE x \in S : \A y \in S : x <= y

\* both lookups find tag: a handle other than -1 and a slot of the registry
Resolves(tag) ==
  /\ FindTextureID(tag) # -1
  /\ FindTextureSlot(tag) \in 0 .. m_loadedTextures - 1

\* C1: once CreateGLTexture(path, tag) on a decodable 3- or 4-channel image
\* has returned true, FindTextureID(tag) is not -1 and FindTextureSlot(tag)
\* is an index in [0, m_loadedTextures): on return of that call, and after
\* every later operation (a tag that resolves keeps resolving).
C1_LoadedTagResolves ==
  /\ [](( /\ last.op = "CreateGLTexture"
          /\ last.arg[1].ok /\ last.arg[1].channels \in {3, 4}
          /\ last.ret = TRUE ) => Resolves(last.arg[2]))
  /\ [][\A tag \in Tags : Resolves(tag) => Resolves(tag)']_vars

\* a load that succeeded after an earlier load failed on its channel count,
\* with a tag already registered in slot 0 and a second tag in slot 1
C1_Witness ==
  /\ last.op = "CreateGLTexture" /\ last.ret = TRUE
  /\ m_loadedTextures = 2
  /\ Cardinality(glNames) = 3
  /\ FindTextureSlot(last.arg[2]) = 1
  /\ FindTextureID(last.arg[2]) = 3

\* C2: a decoded image whose channel count is neither 3 nor 4 makes
\* CreateGLTexture return false and leaves m_loadedTextures and every
\* entry's tag and ID as they were.
C2_BadChannelsRejected ==
  [][( /\ last'.op = "CreateGLTexture"
       /\ last'.arg[1].ok
       /\ last'.arg[1].channels \notin {3, 4} )
     => (last'.ret = FALSE /\ UNCHANGED texVars)]_vars

\* a five-channel image rejected by a registry that holds an entry
C2_Witness ==
  /\ last.op = "CreateGLTexture" /\ last.ret = FALSE
  /\ last.arg[1].ok /\ last.arg[1].channels = 5
  /\ m_loadedTextures = 1

\* C3: when the decoder returns no pixels CreateGLTexture returns false,
\* generates no texture name and changes neither the registry nor any other
\* state a later load or lookup reads (the flip flag, which every load sets
\* before it decodes, is the one thing it writes).
C3_DecodeFailureContained ==
  [][( last'.op = "CreateGLTexture" /\ ~last'.arg[1].ok )
     => ( /\ last'.ret = FALSE
          /\ last'.calls = <<>>
          /\ UNCHANGED << texVars, glVars, m_objectMaterials, uniforms,
                          m_pShaderManager, crashed >> )]_vars

\* a failed decode on a registry that holds entries, bound to units
C3_Witness ==
  /\ last.op = "CreateGLTexture" /\ ~last.arg[1].ok /\ last.ret = FALSE
  /\ m_loadedTextures = 2
  /\ DOMAIN glBound = {0, 1}

\* what a lookup of tag has to return: the smallest matching slot (or the ID
\* held there), -1 when no registered entry has the tag
ExpectedSlot(tag) ==
  IF TextureMatches(tag) = {} THEN -1 ELSE Smallest(TextureMatches(tag))

ExpectedID(tag) ==
  IF TextureMatches(tag) = {} THEN -1
  ELSE m_textureIDs[Smallest(TextureMatches(tag))].ID

\* C4: FindTextureSlot(tag) returns the smallest index in
\* [0, m_loadedTextures) whose tag equals tag and FindTextureID(tag) that
\* entry's ID; both return -1 when no registered entry has the tag; neither
\* changes the registry.
C4_LookupFirstMatch ==
  /\ [](\A tag \in Tags : /\ FindTextureSlot(tag) = ExpectedSlot(tag)
                          /\ FindTextureID(tag) = ExpectedID(tag))
  /\ [](last.op = "FindTextureSlot" => last.ret = ExpectedSlot(last.arg))
  /\ [](last.op = "FindTextureID" => last.ret = ExpectedID(last.arg))
  /\ [][last'.op \in {"FindTextureSlot", "FindTextureID"}
          => UNCHANGED texVars]_vars

\* a lookup of a tag registered twice, in slots 1 and 2, behind another tag
C4_Witness ==
  /\ last.op = "FindTextureID" /\ last.ret = 2
  /\ TextureMatches(last.arg) = {1, 2}
  /\ FindTextureSlot("/0") = -1

\* C5: after N successful loads BindGLTextures binds, for every i in [0, N),
\* the handle of entry i to texture unit i, in that order, and makes no
\* binding on any unit >= N.
C5_BindsEntryToUnit ==
  last.op = "BindGLTextures" =>
    /\ Len(last.calls) = 2 * m_loadedTextures
    /\ \A i \in 0 .. m_loadedTextures - 1 :
         /\ last.calls[2 * i + 1] = <<"glActiveTexture", i>>
         /\ last.calls[2 * i + 2] = <<"glBindTexture", i, m_textureIDs[i].ID>>
         /\ BoundAt(glBound, i) = m_textureIDs[i].ID
    /\ \A k \in 1 .. Len(last.calls) : last.calls[k][2] < m_loadedTextures

\* BindGLTextures with two entries, the second loaded after a rejected load
\* (so that handles are not slot numbers plus one)
C5_Witness ==
  /\ last.op = "BindGLTextures"
  /\ m_loadedTextures = 2
  /\ BoundAt(glBound, 0) = 1
  /\ BoundAt(glBound, 1) = 3


(***************************************************************************)
(* Claims about the material registry (checked under SpecMat)              *)
(***************************************************************************)

\* the positions of m_objectMaterials whose tag is tag
MaterialMatches(tag) ==
  {i \in 1 .. Len(m_objectMaterials) : m_objectMaterials[i].tag = tag}

\* the five properties of a material, without its tag
Properties(material) == [f \in PropertyNames |-> material[f]]

\* C6: on an empty material registry FindMaterial returns false for every
\* tag and writes no field of the output material.
C6_EmptyRegistryNotFound ==
  (last.op = "FindMaterial" /\ Len(m_objectMaterials) = 0) =>
    (last.ret = FALSE /\ last.out = last.arg[2])

\* a lookup on the empty registry, the caller's material holding values
C6_Witness ==
  /\ last.op = "FindMaterial"
  /\ Len(m_objectMaterials) = 0
  /\ last.arg[1] = "metal"
  /\ last.arg[2].shininess = 300

\* C7: when several entries carry the looked-up tag, FindMaterial yields the
\* five properties of the first of them, and not those of a later entry
\* that differs from it.
C7_FirstMatchWins ==
  (last.op = "FindMaterial" /\ MaterialMatches(last.arg[1]) # {}) =>
    LET first == Smallest(MaterialMatches(last.arg[1]))
    IN  /\ last.ret = TRUE
        /\ Properties(last.out) = Properties(m_objectMaterials[first])
        /\ \A j \in MaterialMatches(last.arg[1]) :
             Properties(m_objectMaterials[j]) # Properties(m_objectMaterials[first])
               => Properties(last.out) # Properties(m_objectMaterials[j])

\* "metal" pushed with the gold properties and later with the wood ones,
\* behind an entry with another tag, and looked up with an output material
\* that held the later entry's values
C7_Witness ==
  /\ last.op = "FindMaterial" /\ last.arg[1] = "metal"
  /\ MaterialMatches("metal") = {2, 3}
  /\ Properties(m_objectMaterials[2]) = Properties(goldMaterial)
  /\ Properties(m_objectMaterials[3]) = Properties(woodMaterial)
  /\ Properties(last.arg[2]) = Properties(woodMaterial)
  /\ Properties(last.out) = Properties(goldMaterial)

\* C8: a lookup for a tag that matches no entry of a non-empty registry
\* returns the not-found result: FindMaterial returns false.
C8_NoMatchNotFound ==
  ( /\ last.op = "FindMaterial"
    /\ Len(m_objectMaterials) > 0
    /\ MaterialMatches(last.arg[1]) = {} ) => last.ret = FALSE

\* C9: SetShaderMaterial(tag) uploads exactly the five material uniforms, in
\* the source's order, with the values of the first entry whose tag is tag
\* (a shader manager being present), and uploads nothing when the registry
\* is empty.
C9_UploadsFirstMatch ==
  last.op = "SetShaderMaterial" =>
    /\ Len(m_objectMaterials) = 0 => last.calls = <<>>
    /\ (m_pShaderManager # NULL /\ MaterialMatches(last.arg) # {}) =>
         LET m == m_objectMaterials[Smallest(MaterialMatches(last.arg))]
         IN  /\ last.calls =
                  << <<"setVec3Value", "material.ambientColor", m.ambientColor>>,
                     <<"setFloatValue", "material.ambientStrength", m.ambientStrength>>,
                     <<"setVec3Value", "material.diffuseColor", m.diffuseColor>>,
                     <<"setVec3Value", "material.specularColor", m.specularColor>>,
                     <<"setFloatValue", "material.shininess", m.shininess>> >>
             /\ \A f \in PropertyNames : UniformIs("material." \o f, m[f])

\* an upload for a tag held by two entries with different properties
C9_Witness ==
  /\ last.op = "SetShaderMaterial" /\ last.arg = "metal"
  /\ m_pShaderManager # NULL
  /\ MaterialMatches("metal") = {2, 3}
  /\ Properties(m_objectMaterials[2]) = Properties(woodMaterial)
  /\ Properties(m_objectMaterials[3]) = Properties(goldMaterial)
  /\ UniformIs("material.shininess", 300)

\* an upload call on the empty registry
C9_WitnessEmpty ==
  /\ last.op = "SetShaderMaterial"
  /\ Len(m_objectMaterials) = 0


(***************************************************************************)
(* Claims about the uniform dispatcher (checked under SpecShader)          *)
(***************************************************************************)

\* C10: with a shader manager present, after SetShaderColor(r,g,b,a) the
\* bUseTexture uniform is false (0) and objectColor is (r,g,b,a); after
\* SetShaderTexture(tag) bUseTexture is true (1) and objectTexture is
\* FindTextureSlot(tag); and no other operation writes any of the three, so
\* at a draw the flag is the one the later of the two calls left.
C10_ColorOrTextureMode ==
  /\ []((m_pShaderManager # NULL /\ last.op = "SetShaderColor") =>
          /\ UniformIs(g_UseTextureName, 0)
          /\ UniformIs(g_ColorValueName, last.arg))
  /\ []((m_pShaderManager # NULL /\ last.op = "SetShaderTexture") =>
          /\ UniformIs(g_UseTextureName, 1)
          /\ UniformIs(g_TextureValueName, FindTextureSlot(last.arg)))
  /\ [][last'.op \notin {"SetShaderColor", "SetShaderTexture"} =>
          \A n \in {g_UseTextureName, g_ColorValueName, g_TextureValueName} :
            UniformValue(uniforms', n) = UniformValue(uniforms, n)]_vars

\* a draw after SetShaderColor, a SetShaderTexture that resolved its tag to
\* slot 1 and a material upload
C10_Witness ==
  /\ last.op = "DrawMesh"
  /\ UniformIs("material.shininess", 300)
  /\ UniformIs(g_UseTextureName, 0)
  /\ UniformIs(g_ColorValueName, <<700, 700, 800, 300>>)
  /\ UniformIs(g_TextureValueName, 1)


(***************************************************************************)
(* Claims about the model matrix (checked under SpecXform)                 *)
(***************************************************************************)

\* the image of the point (x, y, z) under the mat4 m, as (x, y, z, w)
MatVec(m, v) ==
  LET Entry(i) ==
        Times(m[i][1], v[1]) + Times(m[i][2], v[2])
          + Times(m[i][3], v[3]) + Times(m[i][4], 1000)
  IN  <<Entry(1), Entry(2), Entry(3), Entry(4)>>

\* points that fix an affine map: the origin and the unit points, and one
\* point off the axes
ProbePoints ==
  { <<0, 0, 0>>, <<1000, 0, 0>>, <<0, 1000, 0>>, <<0, 0, 1000>>,
    <<1000, 2000, -3000>> }

\* SetTransformations has just uploaded a model matrix
Transformed == last.op = "SetTransformations" /\ m_pShaderManager # NULL

NoRotation ==
  /\ last.arg.XrotationDegrees = 0
  /\ last.arg.YrotationDegrees = 0
  /\ last.arg.ZrotationDegrees = 0

\* C11: with scale (1, 1, 1) and rotation (0, 0, 0) the uploaded model
\* matrix is a pure translation: it moves every point by positionXYZ and
\* does nothing else
C11_PureTranslation ==
  (Transformed /\ NoRotation /\ last.arg.scaleXYZ = <<1000, 1000, 1000>>) =>
    LET t == last.arg.positionXYZ
    IN  \A p \in ProbePoints :
          MatVec(uniforms[g_ModelName], p)
            = <<p[1] + t[1], p[2] + t[2], p[3] + t[3], 1000>>

C11_Witness ==
  /\ Transformed /\ NoRotation
  /\ last.arg.scaleXYZ = <<1000, 1000, 1000>>
  /\ last.arg.positionXYZ = <<1000, -2000, 3000>>
  /\ MatVec(uniforms[g_ModelName], <<1000, 2000, -3000>>) = <<2000, 0, 0, 1000>>

\* C12: with rotation (0, 0, 0) and position (0, 0, 0) the uploaded model
\* matrix scales each axis by its own component of scaleXYZ; scale
\* (2, 1, 1) maps the point (1, 0, 0) to (2, 0, 0)
C12_PureScale ==
  (Transformed /\ NoRotation /\ last.arg.positionXYZ = <<0, 0, 0>>) =>
    LET s == last.arg.scaleXYZ
    IN  /\ \A p \in ProbePoints :
             MatVec(uniforms[g_ModelName], p)
               = <<Times(s[1], p[1]), Times(s[2], p[2]), Times(s[3], p[3]), 1000>>
        /\ s = <<2000, 1000, 1000>> =>
             MatVec(uniforms[g_ModelName], <<1000, 0, 0>>) = <<2000, 0, 0, 1000>>

C12_Witness ==
  /\ Transformed /\ NoRotation
  /\ last.arg.positionXYZ = <<0, 0, 0>>
  /\ last.arg.scaleXYZ = <<2000, 1000, 1000>>
  /\ MatVec(uniforms[g_ModelName], <<1000, 0, 0>>) = <<2000, 0, 0, 1000>>

\* a quarter turn of the point p about an axis, counter-clockwise seen
\* from the positive end of the axis
QuarterTurn(axis, p) ==
  CASE axis = XAxis -> <<p[1], -p[3], p[2]>>
    [] axis = YAxis -> <<p[3], p[2], -p[1]>>
    [] axis = ZAxis -> <<-p[2], p[1], p[3]>>

RECURSIVE Turned(_, _, _)
\* p after n quarter turns about an axis
Turned(axis, n, p) ==
  IF n = 0 THEN p ELSE Turned(axis, n - 1, QuarterTurn(axis, p))

QuarterTurns(degrees) == (degrees \div 90000) % 4

\* the reference composition applied to a point: scale, then the rotation
\* about Z, then about Y, then about X, then the translation
Reference(arg, p) ==
  LET scaled ==
        <<Times(arg.scaleXYZ[1], p[1]), Times(arg.scaleXYZ[2], p[2]),
          Times(arg.scaleXYZ[3], p[3])>>
      aboutZ == Turned(ZAxis, QuarterTurns(arg.ZrotationDegrees), scaled)
      aboutY == Turned(YAxis, QuarterTurns(arg.YrotationDegrees), aboutZ)
      aboutX == Turned(XAxis, QuarterTurns(arg.XrotationDegrees), aboutY)
  IN  <<aboutX[1] + arg.positionXYZ[1], aboutX[2] + arg.positionXYZ[2],
        aboutX[3] + arg.positionXYZ[3], 1000>>

RightAngles(arg) ==
  /\ arg.XrotationDegrees % 90000 = 0
  /\ arg.YrotationDegrees % 90000 = 0
  /\ arg.ZrotationDegrees % 90000 = 0

\* the product with the rotations about X and Z exchanged
RotationsExchanged(arg) ==
  MatMul(MatMul(MatMul(MatMul(glmTranslate(arg.positionXYZ),
                              glmRotate(arg.ZrotationDegrees, ZAxis)),
                       glmRotate(arg.YrotationDegrees, YAxis)),
                glmRotate(arg.XrotationDegrees, XAxis)),
         glmScale(arg.scaleXYZ))

\* C13: the uploaded model matrix applies scale first, then the rotation
\* about Z, then about Y, then about X, then the translation; for
\* rotations that are multiples of 90 degrees it equals that reference
\* composition on every point (and so differs from another order of the
\* parts wherever that order moves a point elsewhere)
C13_CompositionOrder ==
  (Transformed /\ RightAngles(last.arg)) =>
    /\ \A p \in ProbePoints :
         MatVec(uniforms[g_ModelName], p) = Reference(last.arg, p)
    /\ uniforms[g_ModelName][4] = <<0, 0, 0, 1000>>

C13_Witness ==
  /\ Transformed
  /\ last.arg.scaleXYZ = <<2000, 3000, 4000>>
  /\ last.arg.XrotationDegrees = 90000
  /\ last.arg.YrotationDegrees = 0
  /\ last.arg.ZrotationDegrees = 90000
  /\ last.arg.positionXYZ = <<1000, -2000, 3000>>
  /\ MatVec(uniforms[g_ModelName], <<1000, 0, 0>>) = <<1000, -2000, 5000, 1000>>
  /\ uniforms[g_ModelName] # RotationsExchanged(last.arg)

(***************************************************************************)
(* Claims about the scene (checked under SpecScene)                        *)
(***************************************************************************)

\* C14: two consecutive executions of RenderScene, with the registries
\* unchanged between them, make the same uniform uploads and draw calls:
\* the same operations with the same arguments in the same order
C14_RepeatableTrace ==
  (pc = Idle /\ frames >= 2) => frameTrace = prevTrace

\* C15: an execution of RenderScene leaves the texture registry and the
\* material registry as they were, and an entry is added to either only
\* while PrepareScene (with its callees) is running
C15_RenderLeavesRegistries ==
  [][/\ pc.fn = "RenderScene" => UNCHANGED << texVars, m_objectMaterials >>
     /\ (\/ m_loadedTextures' > m_loadedTextures
         \/ Len(m_objectMaterials') > Len(m_objectMaterials))
          => pc.fn = "PrepareScene"]_vars

C15_Witness ==
  /\ pc = Idle
  /\ frames >= 1
  /\ last.op = "DrawMesh"
  /\ m_loadedTextures = TexCapacity
  /\ Len(m_objectMaterials) = 4

\* the order of the passes
PassOrder ==
  << "RenderDeskandwalls", "RenderKeyboardandmat", "RenderMouse",
     "RenderPCexterior", "RenderPCinterior", "RenderMonitor", "RenderGlass" >>

Rank(pass) == CHOOSE k \in DOMAIN PassOrder : PassOrder[k] = pass

\* the positions of the draw calls in a trace
Draws(trace) == {k \in DOMAIN trace : trace[k].op = "DrawMesh"}

\* C16: within an execution of RenderScene the passes run in the order
\* desk/walls, keyboard/mat, mouse, PC exterior, PC interior, monitor,
\* glass: no call of a pass follows a call of a later pass, every pass has
\* run when RenderScene returns, and every draw of the glass pass comes
\* after every draw of the other passes
C16_PassOrder ==
  LET n == Len(frameTrace)
  IN  /\ n >= 2 => Rank(frameTrace[n - 1].pass) <= Rank(frameTrace[n].pass)
      /\ (pc = Idle /\ frames >= 1) =>
           /\ {frameTrace[k].pass : k \in Draws(frameTrace)}
                = {PassOrder[k] : k \in DOMAIN PassOrder}
           /\ \A i, j \in Draws(frameTrace) :
                (/\ frameTrace[i].pass = "RenderGlass"
                 /\ frameTrace[j].pass # "RenderGlass") => j < i

C16_Witness ==
  /\ pc = Idle
  /\ frames >= 1
  /\ frameTrace[1].pass = "RenderDeskandwalls"
  /\ frameTrace[Len(frameTrace)].pass = "RenderGlass"
  /\ frameTrace[Len(frameTrace)].op = "DrawMesh"
  /\ \E k \in Draws(frameTrace) : frameTrace[k].pass = "RenderMonitor"

\* the positions of the calls of one of ops in the running directive
Positions(ops) == {k \in DOMAIN directive : directive[k] \in ops}

\* C17: between a draw call and the draw call before it (or the start of
\* the pass) there is exactly one SetTransformations call, and after it at
\* least one SetShaderTexture or SetShaderColor call
C17_TransformThenSurface ==
  last.op = "DrawMesh" =>
    /\ Cardinality(Positions({"SetTransformations"})) = 1
    /\ \E t \in Positions({"SetTransformations"}) :
         \E s \in Positions({"SetShaderTexture", "SetShaderColor"}) : t < s

C17_Witness ==
  /\ last.op = "DrawMesh"
  /\ pc.fn = "RenderScene"
  /\ directive =
       << "SetTransformations", "SetShaderTexture", "SetTextureUVScale",
          "SetShaderTexture", "SetTextureUVScale", "DrawMesh" >>

\* C18: between a draw call and the draw call before it (or the start of
\* the pass) there is a SetShaderMaterial call made after the directive's
\* texture or colour call
C18_MaterialBeforeDraw ==
  last.op = "DrawMesh" =>
    \E c \in Positions({"SetShaderMaterial"}) :
      \A s \in Positions({"SetShaderTexture", "SetShaderColor"}) : s < c

\* C19: BindGLTextures runs once, when PrepareScene has made its last
\* CreateGLTexture call and before any draw call: never twice, never
\* followed by a CreateGLTexture call, never preceded by a draw call, and
\* done by the time PrepareScene returns or a mesh is drawn
C19_BindOnceAfterLoads ==
  /\ hist.binds <= 1
  /\ hist.createsAfterBind = 0
  /\ hist.drawsBeforeBind = 0
  /\ hist.draws > 0 => hist.binds = 1
  /\ last.op = "BindGLTextures" => hist.creates = Len(SceneTextureLoads)
  /\ (hist.prepares = 1 /\ pc.fn # "PrepareScene") => hist.binds = 1

C19_Witness ==
  /\ pc = Idle
  /\ frames = 2
  /\ hist.prepares = 1
  /\ hist.binds = 1
  /\ hist.creates = 16
  /\ hist.draws > 0

\* C20: when the destructor has run, every texture name that was made is
\* released (none is left), and the teardown has made no new name
C20_TeardownReleasesHandles ==
  pc.fn = "destroyed" =>
    /\ glNames = {}
    /\ \A k \in DOMAIN last.calls : last.calls[k][1] # "glGenTextures"

(***************************************************************************)
(* Claims about the capacity of the texture table (checked under           *)
(* SpecReload)                                                             *)
(***************************************************************************)

\* C21: whatever CreateGLTexture calls have been made, PrepareScene run
\* more than once included, at most 16 textures are registered and every
\* write into the registry is at an index from 0 to 15: the table has no
\* entry outside these indices and no load has died writing one
C21_WithinCapacity ==
  /\ m_loadedTextures <= TexCapacity
  /\ DOMAIN m_textureIDs \subseteq 0 .. TexCapacity - 1
  /\ ~(crashed /\ last.op = "CreateGLTexture")

(***************************************************************************)
(* Further claims about the material registry (checked under SpecMat)      *)
(***************************************************************************)

\* C22: on a non-empty registry, a FindMaterial call whose tag matches no
\* entry hands the output material back exactly as it was passed in; a
\* field of the output differs from what was passed in only when some
\* entry has the tag, and the output's tag is never written
C22_NoMatchLeavesOutput ==
  (last.op = "FindMaterial" /\ Len(m_objectMaterials) > 0) =>
    /\ MaterialMatches(last.arg[1]) = {} => last.out = last.arg[2]
    /\ last.out # last.arg[2] => MaterialMatches(last.arg[1]) # {}
    /\ last.out.tag = last.arg[2].tag

C22_Witness ==
  /\ last.op = "FindMaterial"
  /\ Len(m_objectMaterials) = 2
  /\ last.arg[1] = "glass"
  /\ MaterialMatches("glass") = {}
  /\ Properties(last.arg[2]) # Properties(m_objectMaterials[1])
  /\ Properties(last.arg[2]) # Properties(m_objectMaterials[2])
  /\ last.out = last.arg[2]

(***************************************************************************)
(* Further claims about the scene (checked under SpecScene)                *)
(***************************************************************************)

\* C23: every material tag RenderScene hands to SetShaderMaterial is the
\* tag of an entry of the material registry, and the uniforms uploaded by
\* the call are the five properties of the first such entry
C23_RenderMaterialsDefined ==
  (last.op = "SetShaderMaterial" /\ pc.fn \in {"RenderScene", "idle"}) =>
    /\ MaterialMatches(last.arg) # {}
    /\ m_pShaderManager # NULL =>
         last.calls = MaterialUploads(m_objectMaterials[Smallest(MaterialMatches(last.arg))])

\* the tags of LoadSceneTextures in the order of its loads
LoadOrder == [k \in DOMAIN SceneTextureLoads |-> SceneTextureLoads[k][3]]

\* the slot a tag of LoadSceneTextures is expected in: none (-1) when its
\* load failed, else its place among the loads, less one for each load
\* that failed before it
SceneSlot(tag) ==
  IF tag \in hist.failed THEN -1
  ELSE LET k == CHOOSE i \in DOMAIN LoadOrder : LoadOrder[i] = tag
       IN  k - 1 - Cardinality({j \in 1 .. k - 1 : LoadOrder[j] \in hist.failed})

\* C24: when all sixteen loads of LoadSceneTextures succeeded, every
\* SetShaderTexture call of RenderScene uploads a slot from 0 to 15 and no
\* draw finds the sampler uniform at -1; when a load failed, a call with
\* that tag uploads sampler -1 with texture sampling switched on, and the
\* tags loaded after it are found one slot lower for each failed load,
\* each slot still being the unit its texture is bound on
C24_SceneTagsResolve ==
  /\ (last.op = "SetShaderTexture" /\ m_pShaderManager # NULL) =>
       LET slot == SceneSlot(last.arg)
       IN  /\ UniformIs(g_UseTextureName, 1)
           /\ UniformIs(g_TextureValueName, slot)
           /\ hist.failed = {} => slot \in 0 .. TexCapacity - 1
           /\ slot # -1 =>
                /\ m_textureIDs[slot].tag = last.arg
                /\ BoundAt(glBound, slot) = m_textureIDs[slot].ID
  /\ (last.op = "DrawMesh" /\ hist.failed = {}) =>
       ~UniformIs(g_TextureValueName, -1)

C24_Witness ==
  /\ last.op = "DrawMesh"
  /\ pc.fn = "RenderScene"
  /\ hist.failed = {"wood"}
  /\ \E k \in DOMAIN frameTrace :
       /\ frameTrace[k].op = "SetShaderTexture"
       /\ frameTrace[k].arg = "wood"
       /\ frameTrace[k].calls[2][3] = -1
  /\ frameTrace[Len(frameTrace) - 3].arg = "keyboard"
  /\ UniformIs(g_UseTextureName, 1)
  /\ UniformIs(g_TextureValueName, 12)
  /\ BoundAt(glBound, 12) = m_textureIDs[12].ID
  /\ m_textureIDs[12].tag = "keyboard"

(***************************************************************************)
(* Further claims about the texture registry (checked under SpecTex)       *)
(***************************************************************************)

\* the IDs held by the registered entries
RegisteredIDs == {m_textureIDs[i].ID : i \in 0 .. m_loadedTextures - 1}

\* C25: whenever CreateGLTexture has returned, the texture names made so
\* far are exactly the IDs of the registered entries (no name is allocated
\* but unregistered, whichever path the call took), and two entries never
\* hold the same ID
C25_HandlesAreRegistered ==
  last.op = "CreateGLTexture" =>
    /\ glNames = RegisteredIDs
    /\ \A i, j \in 0 .. m_loadedTextures - 1 :
         m_textureIDs[i].ID = m_textureIDs[j].ID => i = j

(***************************************************************************)
(* Claims about the two texture lookups in the scene (checked under        *)
(* SpecScene)                                                              *)
(***************************************************************************)

\* the tags of LoadSceneTextures, and the tag of the unused slots
SceneTags == {LoadOrder[k] : k \in DOMAIN LoadOrder} \cup {"/0"}

\* C26: for every tag FindTextureID is -1 exactly when FindTextureSlot is
\* -1, and otherwise it is the ID stored at the index FindTextureSlot
\* gives; so once BindGLTextures has run after the last load, the unit
\* SetShaderTexture(tag) uploads is the unit that tag's texture is bound on
C26_LookupsAgree ==
  /\ \A tag \in SceneTags :
       /\ FindTextureID(tag) = -1 <=> FindTextureSlot(tag) = -1
       /\ FindTextureSlot(tag) # -1 =>
            FindTextureID(tag) = m_textureIDs[FindTextureSlot(tag)].ID
  /\ ( /\ last.op = "SetShaderTexture"
       /\ m_pShaderManager # NULL
       /\ hist.binds > 0
       /\ hist.createsAfterBind = 0
       /\ ~UniformIs(g_TextureValueName, -1) ) =>
       BoundAt(glBound, uniforms[g_TextureValueName]) = FindTextureID(last.arg)

C26_Witness ==
  /\ last.op = "SetShaderTexture"
  /\ last.arg = "blackpl"
  /\ hist.failed = {"wood"}
  /\ FindTextureSlot("wood") = -1
  /\ FindTextureID("wood") = -1
  /\ FindTextureSlot("blackpl") = 14
  /\ FindTextureID("blackpl") = m_textureIDs[14].ID
  /\ UniformIs(g_TextureValueName, 14)
  /\ BoundAt(glBound, 14) = FindTextureID("blackpl")

(***************************************************************************)
(* Further claims about the uniform dispatcher (checked under SpecShader)  *)
(***************************************************************************)

\* C27: with a null shader manager no dispatcher operation uploads a
\* uniform or dereferences the manager: no uniform is ever written, the
\* last dispatcher call made no upload, and the process has not died
C27_NullShaderNoUpload ==
  m_pShaderManager = NULL =>
    /\ uniforms = <<>>
    /\ ~crashed
    /\ last.op \in {"SetShaderColor", "SetShaderTexture", "SetTextureUVScale",
                    "SetShaderMaterial"} => last.calls = <<>>

=============================================================================
